---- MODULE Spec2Model ----
(***************************************************************************)
(* pushit: main of lib/pushit.js with its --default and push commands, the  *)
(* push pipeline from loadConfig to the pipeline's final callback, and the *)
(* end of the process.                                                     *)
(*                                                                         *)
(* A JavaScript string is a sequence of one-character strings, so that the *)
(* regular expressions, split, replace and indexOf of the source are       *)
(* computed character by character.  The characters used are letters,     *)
(* digits, '/', '.', '+', ' ', '=', '@', '%', '[' and ']': in a local      *)
(* pattern '.' and '+' are the regular-expression operators, and no value  *)
(* holds a '$' (which String.prototype.replace would interpret in a        *)
(* replacement).                                                           *)
(***************************************************************************)
EXTENDS Naturals, Sequences, FiniteSets, TLC

VARIABLES
    opts,          \* the parsed options: opts.default and opts.host
    configFile,    \* the file CONFIG (~/.pushitrc): whether it exists, its JSON
    config,        \* state.config
    toHost,        \* state.toHost
    DRYRUN,        \* the --dryrun option
    repoPaths,     \* repo.paths: the rules "local=remote" of the current repo
    toPushRaw,     \* state.toPushRaw: the input paths (arguments of push)
    pc,            \* "main", the pipeline function that runs next, "done"
                   \* after the final callback of push, "returned" after
                   \* another command
    statPending,   \* input paths whose fs.stat has not called back yet
    statErrors,    \* errors collected by resolveLocalPaths' forEachParallel
    toPush,        \* state.toPush
    varValues,     \* state.varValues
    funcValues,    \* state.funcValues
    remotePaths,   \* state.remotePaths
    processed,     \* for each rule, the names processVar went through (the
                   \* debug line 'processVar: "%s"'), in order
    hookTasks,     \* inputs of callFunctions' forEachParallel (matchingPaths)
    hookPending,   \* indices of hookTasks whose hook has not called back yet
    hookErrors,    \* errors collected by callFunctions' forEachParallel
    hookCalls,     \* every hooks[funcName].apply(...) made, in order
    hookResult,    \* for each task whose hookHandler has run, whether it was
                   \* given an error ("failed") or a result ("ok")
    scpCommands,   \* state.scpCommands
    scpPending,    \* indices of scpCommands whose cp.exec has not called back
    scpErrors,     \* errors collected by runScpCommands' forEachParallel
    scpExecuted,   \* every cp.exec(cmd) made by runScpCommands, in order
    printed,       \* the commands written by console.log('# %s', cmd)
    failedStage,   \* the pipeline function that called back with an error
    errors,        \* what the final callback of push received (err.ase_errors)
    exitStatus,    \* the exit status of the process, undefined while it runs
    str,           \* the argument of the findVars call under way
    lastIndex,     \* tagRE.lastIndex, 0-based as in JavaScript
    foundVars,     \* the local array vars of the findVars call under way
    findVarsPc     \* "idle", "exec" while findVars calls tagRE.exec,
                   \* "returned" when it has its result

\* what main and the first pipeline functions work on
hostVars == <<opts, configFile, config, toHost>>

\* what is written once by a later step
logVars == <<processed, hookResult, printed, exitStatus>>

\* one findVars call and the regular expression it shares with the others
scanVars == <<str, lastIndex, foundVars, findVarsPc>>

\* what a push works on
pushVars == <<opts, configFile, config, toHost, DRYRUN, repoPaths, toPushRaw,
              pc, statPending, statErrors, toPush, varValues, funcValues,
              remotePaths, processed, hookTasks, hookPending, hookErrors,
              hookCalls, hookResult, scpCommands, scpPending, scpErrors,
              scpExecuted, printed, failedStage, errors, exitStatus>>

vars == <<pushVars, scanVars>>

-----------------------------------------------------------------------------
(* Bounds of the model *)

\* the most input paths of one run
MaxFiles == 2

\* the longest string given to a findVars call that is followed step by step
MaxLen == 6

-----------------------------------------------------------------------------
(* JavaScript values *)

\* the value undefined; String(undefined) is "undefined"
Undefined == <<"undefined">>

JsString(v) ==
    IF v = Undefined THEN <<"u","n","d","e","f","i","n","e","d">> ELSE v

\* obj[k] of a JavaScript object: undefined when the key is missing
Get(obj, k) == IF k \in DOMAIN obj THEN obj[k] ELSE Undefined

\* obj[k] = v
Put(obj, k, v) == [x \in (DOMAIN obj) \cup {k} |-> IF x = k THEN v ELSE obj[x]]

EmptyObject == [x \in {} |-> Undefined]

\* s.indexOf(pat), 1-based; 0 when pat does not occur (JavaScript's -1)
RECURSIVE IndexFrom(_, _, _)
IndexFrom(s, pat, i) ==
    IF i + Len(pat) - 1 > Len(s) THEN 0
    ELSE IF SubSeq(s, i, i + Len(pat) - 1) = pat THEN i
    ELSE IndexFrom(s, pat, i + 1)

IndexOf(s, pat) == IndexFrom(s, pat, 1)

\* s.lastIndexOf(c) for a one-character c, 1-based; 0 when c does not occur
RECURSIVE LastIndexOf(_, _)
LastIndexOf(s, c) ==
    IF s = <<>> THEN 0
    ELSE IF s[Len(s)] = c THEN Len(s)
    ELSE LastIndexOf(SubSeq(s, 1, Len(s) - 1), c)

\* s.replace(pat, rep) with a string pattern: the first occurrence only;
\* an undefined replacement is converted to the string "undefined"
Replace(s, pat, rep) ==
    LET i == IndexOf(s, pat) IN
    IF i = 0 THEN s
    ELSE SubSeq(s, 1, i - 1) \o JsString(rep) \o SubSeq(s, i + Len(pat), Len(s))

\* s.split(c) for a one-character separator c
RECURSIVE SplitFrom(_, _, _)
SplitFrom(s, c, cur) ==
    IF s = <<>> THEN <<cur>>
    ELSE IF Head(s) = c THEN <<cur>> \o SplitFrom(Tail(s), c, <<>>)
    ELSE SplitFrom(Tail(s), c, Append(cur, Head(s)))

Split(s, c) == SplitFrom(s, c, <<>>)

\* s.split(/\s+/g): the separator is a run of spaces
RECURSIVE SplitSpacesFrom(_, _)
SplitSpacesFrom(s, cur) ==
    IF s = <<>> THEN <<cur>>
    ELSE IF Head(s) = " " THEN
        IF Len(s) > 1 /\ s[2] = " " THEN SplitSpacesFrom(Tail(s), cur)
        ELSE <<cur>> \o SplitSpacesFrom(Tail(s), <<>>)
    ELSE SplitSpacesFrom(Tail(s), Append(cur, Head(s)))

SplitSpaces(s) == SplitSpacesFrom(s, <<>>)

\* a.join(c)
RECURSIVE Join(_, _)
Join(a, c) ==
    IF a = <<>> THEN <<>>
    ELSE IF Len(a) = 1 THEN a[1]
    ELSE a[1] \o <<c>> \o Join(Tail(a), c)

-----------------------------------------------------------------------------
(* tagRE, findVars, funcRE *)

\* tagRE.exec from position i: the leftmost '%', one or more characters that
\* are not '%', then '%'; the names of all matches, left to right.  Every
\* findVars call runs exec until it returns null, which resets lastIndex to
\* 0, so each call starts at the beginning of its string.
RECURSIVE FindVarsFrom(_, _)
FindVarsFrom(s, i) ==
    IF i > Len(s) THEN <<>>
    ELSE IF s[i] # "%" THEN FindVarsFrom(s, i + 1)
    ELSE LET j == IndexFrom(s, <<"%">>, i + 1) IN
         IF j = 0 THEN <<>>
         ELSE IF j = i + 1 THEN FindVarsFrom(s, i + 1)
         ELSE <<SubSeq(s, i + 1, j - 1)>> \o FindVarsFrom(s, j + 1)

findVars(s) == FindVarsFrom(JsString(s), 1)

\* funcRE.exec(pVar): '[', one or more characters that are not ']', then ']',
\* at the start of pVar; the captured group, or <<>> when there is no match
FuncMatch(pVar) ==
    IF pVar = <<>> \/ Head(pVar) # "[" THEN <<>>
    ELSE LET j == IndexFrom(pVar, <<"]">>, 2) IN
         IF j <= 2 THEN <<>> ELSE SubSeq(pVar, 2, j - 1)

\* fmt('%%%s%', name)
Tag(name) == <<"%">> \o JsString(name) \o <<"%">>

\* path.relative(state.top, path.join(state.top, p)), and path.relative(
\* state.top, f) for an input path f given relative to the working directory,
\* which is the top of the repository: empty and '.' segments are dropped and
\* '..' removes the segment before it
RECURSIVE NormSegs(_, _)
NormSegs(segs, acc) ==
    IF segs = <<>> THEN acc
    ELSE LET seg == Head(segs) IN
         IF seg = <<>> \/ seg = <<".">> THEN NormSegs(Tail(segs), acc)
         ELSE IF seg = <<".", ".">> /\ acc # <<>> /\ acc[Len(acc)] # <<".", ".">>
              THEN NormSegs(Tail(segs), SubSeq(acc, 1, Len(acc) - 1))
         ELSE NormSegs(Tail(segs), Append(acc, seg))

Relative(p) == Join(NormSegs(Split(p, "/"), <<>>), "/")

-----------------------------------------------------------------------------
(* The environment of a run: the hook table, the repository configuration, *)
(* the files of the working tree, the destination host                     *)

GetZoneRoot == <<"g","e","t","Z","o","n","e","R","o","o","t">>
Debug == <<"d","e","b","u","g">>

\* the keys of module.exports of lib/hooks.js
HookNames == {GetZoneRoot, Debug}

\* the text of a hook reference, '[name args]'
HookRef(name, args) == <<"[">> \o name \o args \o <<"]">>

ZoneHook == HookRef(GetZoneRoot, <<" ","f","w","a","p","i">>)
NapiHook == HookRef(GetZoneRoot, <<" ","n","a","p","i">>)

\* repo.variables
RepoVariables ==
       (<<"x">> :> <<"l","i","t","e","r","a","l">>)
    @@ (<<"p","r","e","f","i","x">> :>
            Tag(<<"z","o","n","e","r","o","o","t">>) \o <<"/","o","p","t">>)
    @@ (<<"z","o","n","e","r","o","o","t">> :>
            Tag(ZoneHook) \o <<"/","r","o","o","t">>)
    @@ (<<"a">> :> Tag(<<"b">>) \o <<"/">> \o Tag(<<"c">>))
    @@ (<<"b">> :> Tag(<<"d">>))
    @@ (<<"c">> :> Tag(<<"b">>))
    @@ (<<"d">> :> <<"v">>)
    @@ (<<"k">> :> Tag(<<"x">>) \o <<"/">> \o Tag(<<"x">>))
    @@ (<<"s">> :> Tag(<<"s">>))
    @@ (<<"u">> :> Tag(<<"w">>))
    @@ (<<"w">> :> Tag(<<"u">>) \o <<"/">> \o Tag(<<"s">>))
    @@ (<<"a","l","t">> :> Tag(ZoneHook))
    @@ (<<"d","b","g">> :> Tag(HookRef(Debug, <<>>)))
    @@ (<<"b","a","d">> :>
            Tag(HookRef(<<"n","o","h","o","o","k">>, <<" ","a","r","g">>)))

\* one element of repo.paths, 'local=remote'
Rule(local, remote) == local \o <<"=">> \o remote

Lib == <<"l","i","b">>
PrefixTag == Tag(<<"p","r","e","f","i","x">>)

\* the rules a repo.paths is made of
RuleStrings ==
    { Rule(Lib, <<"/","o","p","t","/","a","p","p","/","l","i","b">>),
      Rule(<<>>, <<"/">>),
      Rule(<<".">>, PrefixTag),
      Rule(<<"l","i","b","+">>, <<"/","r">>),
      Rule(Lib, Tag(<<"x">>)),
      Rule(Lib, Tag(<<"a">>)),
      Rule(Lib, Tag(<<"m","1">>) \o <<"/">> \o Tag(<<"m","2">>)),
      Rule(Lib, PrefixTag \o <<"/">> \o Tag(<<"m","1">>)),
      Rule(Lib, Tag(<<"u">>)),
      Rule(<<>>, Tag(<<"a","l","t">>)),
      Rule(Lib, Tag(<<"d","b","g">>)),
      Rule(Lib, Tag(<<"b","a","d">>)),
      Rule(Lib, Tag(ZoneHook) \o <<"/">> \o Tag(NapiHook)),
      Rule(Lib, Tag(<<"k">>)) }

\* rules whose template names, after a variable that refers to another one,
\* a hook that is not in the hook table or a variable that refers to itself
SecondNameRules ==
    { Rule(Lib, Tag(<<"k">>) \o <<"/">>
                  \o Tag(HookRef(<<"n","o","h","o","o","k">>,
                                 <<" ","a","r","g">>))),
      Rule(Lib, Tag(<<"k">>) \o <<"/">> \o Tag(<<"s">>)) }

\* the paths fs.stat finds, and whether each is a directory
FileSystem ==
       (<<"l","i","b","/","x",".","j","s">> :> FALSE)
    @@ (Lib :> TRUE)
    @@ (<<"l","i","b","+","/","x">> :> FALSE)
    @@ (<<"R","E","A","D","M","E",".","m","d">> :> FALSE)
    @@ (<<".">> :> TRUE)

\* the paths a run may be given: those of the working tree and one that does
\* not exist
InputPaths == (DOMAIN FileSystem) \cup {<<"g","o","n","e">>}

\* state.top
Top == <<"/","r","e","p","o">>

\* the defaultHost stored in the config file
DefaultHost == <<"r","o","o","t","@","h","o","s","t">>

\* a host given with --host or --default
OtherHost == <<"r","o","o","t","@","o","t","h","e","r">>

\* the key 'defaultHost' of the config file
DefaultHostKey == <<"d","e","f","a","u","l","t","H","o","s","t">>

\* JSON.stringify({ defaultHost: host }) as JSON.parse reads it back
ConfigOf(host) == [x \in {DefaultHostKey} |-> host]

\* what the file CONFIG may be before a run: absent, the object setHost
\* wrote, or an object without the defaultHost property
ConfigFiles ==
    { [exists |-> FALSE, data |-> EmptyObject],
      [exists |-> TRUE, data |-> ConfigOf(DefaultHost)],
      [exists |-> TRUE, data |-> EmptyObject] }

\* what the getZoneRoot hook returns when it succeeds, for each zone alias
ZonePath == <<"/","z","o","n","e","s","/","z","1">>
ZonePaths ==
       (<<"f","w","a","p","i">> :> ZonePath)
    @@ (<<"n","a","p","i">> :> <<"/","z","o","n","e","s","/","z","2">>)

\* the rules that stand beside another one in a repo.paths: the two that
\* match everything and the one of the lib directory
Companions ==
    { Rule(<<>>, <<"/">>),
      Rule(<<".">>, PrefixTag),
      Rule(Lib, <<"/","o","p","t","/","a","p","p","/","l","i","b">>) }

\* a configuration whose two rules match different paths and need the same
\* variable: '%a%' needs b through a and c, '%b%' needs it directly
SharedVariableRepo ==
    << Rule(Lib, Tag(<<"a">>)), Rule(<<".">>, Tag(<<"b">>)) >>

\* state.repos, the configurations of the repos file, of which state.repo
\* names one: each is one rule, or one rule before or after a companion
Repos ==
    { <<r>> : r \in RuleStrings }
    \cup { <<r, q>> : r \in RuleStrings, q \in Companions }
    \cup { <<q, r>> : r \in RuleStrings, q \in Companions }
    \cup { <<r>> : r \in SecondNameRules }
    \cup { SharedVariableRepo }

\* the configurations the options and config files of the host are run with
HostRepos ==
    { <<Rule(Lib, <<"/","o","p","t","/","a","p","p","/","l","i","b">>)>> }

-----------------------------------------------------------------------------
(* determineVariableWork *)

\* new VError('Unknown variable "%s"', name)
UnknownVariable(name) == [msg |-> "Unknown variable", arg |-> name]

\* a processVar that puts in seenVars only the names whose value refers to
\* other names
processVarLeafUnseen(w, pVar, origVar) ==
    IF pVar \in w.seenVars THEN [w |-> w, ret |-> FALSE]
    ELSE
        LET w1 == [w EXCEPT
                     !.log = Append(@, pVar),
                     !.varValues = Put(@, pVar, Get(RepoVariables, pVar)),
                     !.seenVars =
                         IF findVars(Get(RepoVariables, pVar)) = <<>>
                         THEN @ ELSE @ \cup {pVar}]
            func == FuncMatch(pVar)
            params == SplitSpaces(func)
            funcObj == [func |-> params[1],
                        args |-> Tail(params),
                        varName |-> IF origVar # Undefined THEN origVar
                                    ELSE pVar]
        IN  IF func # <<>> THEN
                IF params[1] \notin HookNames THEN
                    [w |-> [w1 EXCEPT !.errors =
                                 Append(@, UnknownVariable(params[1]))],
                     ret |-> FALSE]
                ELSE
                    [w |-> [w1 EXCEPT !.funcs = <<funcObj>> \o @],
                     ret |-> TRUE]
            ELSE IF pVar \notin DOMAIN RepoVariables THEN
                [w |-> [w1 EXCEPT !.errors =
                             Append(@, UnknownVariable(pVar))],
                 ret |-> FALSE]
            ELSE [w |-> w1, ret |-> TRUE]

\* processVar(pVar, origVar) of the rule being worked on.  w holds what the
\* closure reads and writes: state.varValues, seenVars, errors, pathObj.vars
\* and pathObj.funcs, and the log of the names it went through.  The result
\* is the new w and the value returned (true, or undefined as FALSE).
processVar(w, pVar, origVar) ==
    IF pVar \in w.seenVars THEN [w |-> w, ret |-> FALSE]
    ELSE
        LET w1 == [w EXCEPT
                     !.log = Append(@, pVar),
                     !.varValues = Put(@, pVar, Get(RepoVariables, pVar)),
                     !.seenVars = @ \cup {pVar}]
            func == FuncMatch(pVar)
            params == SplitSpaces(func)
            funcObj == [func |-> params[1],
                        args |-> Tail(params),
                        varName |-> IF origVar # Undefined THEN origVar
                                    ELSE pVar]
        IN  IF func # <<>> THEN
                IF params[1] \notin HookNames THEN
                    [w |-> [w1 EXCEPT !.errors =
                                 Append(@, UnknownVariable(params[1]))],
                     ret |-> FALSE]
                ELSE
                    [w |-> [w1 EXCEPT !.funcs = <<funcObj>> \o @],
                     ret |-> TRUE]
            ELSE IF pVar \notin DOMAIN RepoVariables THEN
                [w |-> [w1 EXCEPT !.errors =
                             Append(@, UnknownVariable(pVar))],
                 ret |-> FALSE]
            ELSE [w |-> w1, ret |-> TRUE]

\* a determineVariableWork that leaves a value without references as
\* processVar stored it
SelfValueRaw(w, name) == w

\* state.varValues[name] = name when findVars(repo.variables[name]) is empty
SelfValue(w, name) ==
    IF findVars(Get(RepoVariables, name)) = <<>>
    THEN [w EXCEPT !.varValues = Put(@, name, name)]
    ELSE w

\* while (otherVars.length !== 0) { ... } for the template variable vName
RECURSIVE OtherVarsLoop(_, _, _)
OtherVarsLoop(w, otherVars, vName) ==
    IF otherVars = <<>> THEN w
    ELSE
        LET oVar == Head(otherVars)
            r == processVar(w, oVar, vName)
        IN  IF ~r.ret THEN OtherVarsLoop(r.w, Tail(otherVars), vName)
            ELSE
                LET w1 == [r.w EXCEPT !.vars = <<oVar>> \o @]
                    varVars == findVars(Get(RepoVariables, oVar))
                IN  OtherVarsLoop(SelfValue(w1, oVar),
                                  Tail(otherVars) \o varVars, vName)

\* for (var v in pathObj.vars) { ... }: the keys are those the array had when
\* the loop began (V8 collects them before the first iteration), while
\* pathObj.vars[v] reads the array as unshift has left it
RECURSIVE TemplateVarsLoop(_, _, _)
TemplateVarsLoop(w, v, n) ==
    IF v > n THEN w
    ELSE
        LET vName == w.vars[v]
            r == processVar(w, vName, Undefined)
        IN  IF ~r.ret THEN TemplateVarsLoop(r.w, v + 1, n)
            ELSE
                LET otherVars == findVars(Get(RepoVariables, vName))
                IN  TemplateVarsLoop(
                        OtherVarsLoop(SelfValue(r.w, vName), otherVars, vName),
                        v + 1, n)

\* pathObj.local, with '.' for the root of the repository
LocalOf(field) == IF Relative(field) = <<>> THEN <<".">> ELSE Relative(field)

\* the body of for (var p in repo.paths): d holds state.varValues, errors,
\* paths and the log of processVar for each rule
RuleStep(d, rule) ==
    LET fields == Split(rule, "=")
        remote == IF Len(fields) >= 2 THEN fields[2] ELSE Undefined
        w0 == [varValues |-> d.varValues, seenVars |-> {},
               errors |-> d.errors, vars |-> findVars(remote), funcs |-> <<>>,
               log |-> <<>>]
        w == TemplateVarsLoop(w0, 1, Len(w0.vars))
    IN  [varValues |-> w.varValues,
         errors |-> w.errors,
         processed |-> Append(d.processed, w.log),
         paths |-> Append(d.paths,
                          [local |-> LocalOf(fields[1]), remote |-> remote,
                           vars |-> w.vars, funcs |-> w.funcs])]

RECURSIVE RulesLoop(_, _)
RulesLoop(d, rules) ==
    IF rules = <<>> THEN d
    ELSE RulesLoop(RuleStep(d, Head(rules)), Tail(rules))

\* what determineVariableWork computes from state.varValues and repo.paths
VariableWork(values, rules) ==
    RulesLoop([varValues |-> values, errors |-> <<>>, paths |-> <<>>,
               processed |-> <<>>], rules)

-----------------------------------------------------------------------------
(* callFunctions: the rule of each local path, and the hooks to call *)

\* new RegExp('^' + local).exec(path).  The pattern is a sequence of atoms,
\* each a character standing for itself or '.' standing for any character,
\* and an atom followed by '+' is repeated one or more times, as many times
\* as the rest of the pattern allows (greedy, with backtracking).  The result
\* is 0 when there is no match, else the index after the last character
\* matched.  pi is the position in the pattern, si the position in the path.
RECURSIVE ReExec(_, _, _, _), RePlus(_, _, _, _, _), ReRun(_, _, _)

\* how many characters of s from si on the atom matches
ReRun(atom, s, si) ==
    IF si <= Len(s) /\ (atom = "." \/ atom = s[si])
    THEN 1 + ReRun(atom, s, si + 1)
    ELSE 0

\* the atom at pi repeated n times, then n - 1 times, ... down to once
RePlus(pat, s, pi, si, n) ==
    IF n = 0 THEN 0
    ELSE LET r == ReExec(pat, s, pi + 2, si + n)
         IN  IF r # 0 THEN r ELSE RePlus(pat, s, pi, si, n - 1)

ReExec(pat, s, pi, si) ==
    IF pi > Len(pat) THEN si
    ELSE IF pi < Len(pat) /\ pat[pi + 1] = "+"
         THEN RePlus(pat, s, pi, si, ReRun(pat[pi], s, si))
    ELSE IF si <= Len(s) /\ (pat[pi] = "." \/ pat[pi] = s[si])
         THEN ReExec(pat, s, pi + 1, si + 1)
    ELSE 0

\* pathObj.re.test(path)
ReTest(local, path) == ReExec(local, path, 1, 1) # 0

\* the index in state.remotePaths of the first rule whose re matches the
\* path, or 0 when the loop ends with matchingPath still null
RECURSIVE FirstMatch(_, _, _)
FirstMatch(paths, path, rp) ==
    IF rp > Len(paths) THEN 0
    ELSE IF ReTest(paths[rp].local, path) THEN rp
    ELSE FirstMatch(paths, path, rp + 1)

\* new VError('No config file paths matched for "%s"', localPath.path)
NoMatch(path) == [msg |-> "No config file paths matched", arg |-> path]

\* for (var lp in state.toPush) { ... }: m holds state.toPush, errors and
\* matchingPaths
RECURSIVE MatchLoop(_, _, _)
MatchLoop(m, paths, lp) ==
    IF lp > Len(m.toPush) THEN m
    ELSE
        LET localPath == m.toPush[lp]
            rp == FirstMatch(paths, localPath.path, 1)
        IN  IF rp = 0
            THEN MatchLoop([m EXCEPT !.errors =
                                Append(@, NoMatch(localPath.path))],
                           paths, lp + 1)
            ELSE MatchLoop([m EXCEPT
                                !.toPush[lp].matchingPath = rp,
                                !.matchingPaths = @ \o paths[rp].funcs],
                           paths, lp + 1)

\* fmt('[%s%s%s]', funcName, args.length != 0 ? ' ' : '', args.join(' '))
FuncVarName(curFunc) ==
    <<"[">> \o curFunc.func
            \o (IF curFunc.args # <<>> THEN <<" ">> ELSE <<>>)
            \o Join(curFunc.args, " ") \o <<"]">>

\* new VError('Function "%s" failed: %s', funcName, e.message)
FunctionFailed(funcName) == [msg |-> "Function failed", arg |-> funcName]

-----------------------------------------------------------------------------
(* expandVariables *)

\* for (e in toExpand) { state.varValues[varName] = ...replace(...) }
RECURSIVE ExpandValue(_, _, _)
ExpandValue(values, varName, toExpand) ==
    IF toExpand = <<>> THEN values
    ELSE ExpandValue(
            Put(values, varName,
                Replace(values[varName], Tag(Head(toExpand)),
                        Get(values, Head(toExpand)))),
            varName, Tail(toExpand))

\* for (var v in remotePath.vars) { ... }
RECURSIVE ExpandVars(_, _)
ExpandVars(values, rvars) ==
    IF rvars = <<>> THEN values
    ELSE ExpandVars(
            ExpandValue(values, Head(rvars),
                        findVars(Get(values, Head(rvars)))),
            Tail(rvars))

\* for (e in toExpand) { remotePath.remote = remotePath.remote.replace(...) }
RECURSIVE ExpandRemote(_, _, _)
ExpandRemote(remote, toExpand, values) ==
    IF toExpand = <<>> THEN remote
    ELSE ExpandRemote(
            Replace(remote, Tag(Head(toExpand)), Get(values, Head(toExpand))),
            Tail(toExpand), values)

\* localPath.path without the part that trimRE matches and without one
\* leading '/'
TrimmedRemote(local, path) ==
    IF local = <<".">> THEN path
    ELSE LET t == IF ReTest(local, path)
                  THEN SubSeq(path, ReExec(local, path, 1, 1), Len(path))
                  ELSE path
         IN  IF t # <<>> /\ Head(t) = "/" THEN Tail(t) ELSE t

\* the destination of the copy: fmt('%s/%s', remote, trimmedRemote), and for
\* a directory what comes before its last '/'
Destination(remote, trimmed, isDir) ==
    LET r == remote \o <<"/">> \o trimmed
    IN  IF isDir THEN SubSeq(r, 1, LastIndexOf(r, "/") - 1) ELSE r

\* fmt('scp %s%s/%s %s:%s', ...), kept as its parts
ScpCmd(localPath, remote) ==
    [recursive |-> localPath.isDir,
     source |-> Top \o <<"/">> \o localPath.path,
     host |-> toHost,
     destination |-> remote]

\* new VError('Found %%: "%s" => "%s"', localPath.path, remotePath.remote)
FoundPercent(path) == [msg |-> "Found %", arg |-> path]

\* for (var lp in state.toPush) { ... }: x holds state.varValues,
\* state.remotePaths, state.scpCommands and the error of the early return
RECURSIVE ExpandLoop(_, _, _)
ExpandLoop(x, files, lp) ==
    IF lp > Len(files) THEN x
    ELSE
        LET localPath == files[lp]
            rp == localPath.matchingPath
            remotePath == x.paths[rp]
            values == ExpandVars(x.varValues, remotePath.vars)
            remote == ExpandRemote(remotePath.remote,
                                   findVars(remotePath.remote), values)
            x1 == [x EXCEPT !.varValues = values,
                            !.paths[rp].remote = remote]
            trimmed == TrimmedRemote(remotePath.local, localPath.path)
        IN  IF IndexOf(remote, <<"%">>) # 0
            THEN [x1 EXCEPT !.errors = <<FoundPercent(localPath.path)>>]
            ELSE ExpandLoop(
                    [x1 EXCEPT !.scpCommands =
                         Append(@, ScpCmd(localPath,
                                          Destination(remote, trimmed,
                                                      localPath.isDir)))],
                    files, lp + 1)

-----------------------------------------------------------------------------
(* The pipeline of push *)

\* the funcs of vasync.pipeline that are modelled, in order (those that read
\* the git repository and the repos file come before resolveLocalPaths and
\* give state.top, state.repos and state.repo); after the last one the final
\* callback runs
NextStage(stage) ==
    CASE stage = "loadConfig" -> "setToHost"
      [] stage = "setToHost" -> "resolveLocalPaths"
      [] stage = "resolveLocalPaths" -> "determineVariableWork"
      [] stage = "determineVariableWork" -> "callFunctions"
      [] stage = "callFunctions" -> "expandVariables"
      [] stage = "expandVariables" -> "runScpCommands"
      [] stage = "runScpCommands" -> "done"

\* a pipeline that notes the error of expandVariables and goes on to the
\* next function all the same
StageDoneKeepsGoing(stage, errs) ==
    IF errs # <<>>
    THEN /\ pc' = IF stage = "expandVariables" THEN NextStage(stage)
                  ELSE "done"
         /\ failedStage' = stage
         /\ errors' = errs
    ELSE pc' = NextStage(stage) /\ UNCHANGED <<failedStage, errors>>

\* a pipeline function calls back: with an error the pipeline stops and the
\* final callback of push receives it, otherwise the next function runs
StageDone(stage, errs) ==
    IF errs # <<>>
    THEN pc' = "done" /\ failedStage' = stage /\ errors' = errs
    ELSE pc' = NextStage(stage) /\ UNCHANGED <<failedStage, errors>>

\* the state push builds (pushit.js 747-755) and what no step has written yet
NothingRun ==
    /\ pc = "main"
    /\ config = EmptyObject
    /\ toHost = Undefined
    /\ processed = <<>>
    /\ hookResult = EmptyObject
    /\ printed = <<>>
    /\ exitStatus = Undefined
    /\ statPending = {}
    /\ statErrors = <<>>
    /\ toPush = <<>>
    /\ varValues = EmptyObject
    /\ funcValues = EmptyObject
    /\ remotePaths = <<>>
    /\ hookTasks = <<>>
    /\ hookPending = {}
    /\ hookErrors = <<>>
    /\ hookCalls = <<>>
    /\ scpCommands = <<>>
    /\ scpPending = {}
    /\ scpErrors = <<>>
    /\ scpExecuted = <<>>
    /\ failedStage = "none"
    /\ errors = <<>>

Init ==
    /\ DRYRUN \in BOOLEAN
    /\ \/ /\ repoPaths \in Repos
          /\ opts = [default |-> Undefined, host |-> Undefined]
          /\ configFile = [exists |-> TRUE, data |-> ConfigOf(DefaultHost)]
       \/ /\ repoPaths \in HostRepos
          /\ opts \in [default : {Undefined, OtherHost},
                       host : {Undefined, OtherHost}]
          /\ configFile \in ConfigFiles
    /\ toPushRaw \in { F \in SUBSET InputPaths : Cardinality(F) <= MaxFiles }
    /\ NothingRun
    /\ str = <<>>
    /\ lastIndex = 0
    /\ foundVars = <<>>
    /\ findVarsPc = "idle"

\* main: with --default setHost writes the config file and main returns;
\* otherwise push builds state and starts the pipeline
main ==
    /\ UNCHANGED scanVars
    /\ pc = "main"
    /\ IF opts.default # Undefined
       THEN /\ configFile' = [exists |-> TRUE, data |-> ConfigOf(opts.default)]
            /\ pc' = "returned"
            /\ toHost' = toHost
       ELSE /\ toHost' = opts.host
            /\ pc' = "loadConfig"
            /\ configFile' = configFile
    /\ UNCHANGED <<opts, config, DRYRUN, repoPaths, toPushRaw, statPending,
                   statErrors, toPush, varValues, funcValues, remotePaths,
                   hookTasks, hookPending, hookErrors, hookCalls, scpCommands,
                   scpPending, scpErrors, scpExecuted, failedStage, errors>>
    /\ UNCHANGED logVars

\* new VError('Config file "%s" does not exist. ...', CONFIG)
NoConfigFile == [msg |-> "Config file does not exist", arg |-> <<>>]

\* new Error('Config file is missing the "defaultHost" property: ...')
NoDefaultHost == [msg |-> "Config file is missing defaultHost", arg |-> <<>>]

\* loadConfig with the callback of fs.readFile: nothing is read when a host
\* was passed in
loadConfig ==
    /\ UNCHANGED scanVars
    /\ pc = "loadConfig"
    /\ IF toHost # Undefined
       THEN /\ StageDone("loadConfig", <<>>)
            /\ config' = config
       ELSE IF ~configFile.exists
       THEN /\ StageDone("loadConfig", <<NoConfigFile>>)
            /\ config' = config
       ELSE /\ config' = configFile.data
            /\ StageDone("loadConfig",
                         IF DefaultHostKey \notin DOMAIN configFile.data
                         THEN <<NoDefaultHost>> ELSE <<>>)
    /\ UNCHANGED <<opts, configFile, toHost, DRYRUN, repoPaths, toPushRaw,
                   statPending, statErrors, toPush, varValues, funcValues,
                   remotePaths, hookTasks, hookPending, hookErrors, hookCalls,
                   scpCommands, scpPending, scpErrors, scpExecuted>>
    /\ UNCHANGED logVars

\* a setToHost that also stores the host it settles on as the default
setToHostSaves ==
    /\ UNCHANGED scanVars
    /\ pc = "setToHost"
    /\ toHost' = IF toHost # Undefined THEN toHost
                 ELSE Get(config, DefaultHostKey)
    /\ configFile' = [exists |-> TRUE, data |-> ConfigOf(toHost')]
    /\ StageDone("setToHost", <<>>)
    /\ UNCHANGED <<opts, config, DRYRUN, repoPaths, toPushRaw,
                   statPending, statErrors, toPush, varValues, funcValues,
                   remotePaths, hookTasks, hookPending, hookErrors, hookCalls,
                   scpCommands, scpPending, scpErrors, scpExecuted>>
    /\ UNCHANGED logVars

\* setToHost: state.toHost is the host passed in, or else the defaultHost
\* of the config loadConfig read
setToHost ==
    /\ UNCHANGED scanVars
    /\ pc = "setToHost"
    /\ toHost' = IF toHost # Undefined THEN toHost
                 ELSE Get(config, DefaultHostKey)
    /\ StageDone("setToHost", <<>>)
    /\ UNCHANGED <<opts, configFile, config, DRYRUN, repoPaths, toPushRaw,
                   statPending, statErrors, toPush, varValues, funcValues,
                   remotePaths, hookTasks, hookPending, hookErrors, hookCalls,
                   scpCommands, scpPending, scpErrors, scpExecuted>>
    /\ UNCHANGED logVars

\* resolveLocalPaths: one fs.stat per input path, all started at once; with
\* no input forEachParallel calls back with no error
resolveLocalPaths ==
    /\ UNCHANGED scanVars
    /\ pc = "resolveLocalPaths"
    /\ statPending' = toPushRaw
    /\ IF toPushRaw = {}
       THEN StageDone("resolveLocalPaths", <<>>)
       ELSE pc' = "stat" /\ UNCHANGED <<failedStage, errors>>
    /\ UNCHANGED hostVars
    /\ UNCHANGED <<processed, hookResult, printed, exitStatus>>
    /\ UNCHANGED <<DRYRUN, repoPaths, toPushRaw, statErrors, toPush,
                   varValues, funcValues, remotePaths, hookTasks, hookPending,
                   hookErrors, hookCalls, scpCommands, scpPending, scpErrors,
                   scpExecuted>>

\* _afterStat for the input path f; the callback of the last stat is followed
\* by the callback of forEachParallel, which fails when any stat failed
afterStat(f) ==
    /\ UNCHANGED scanVars
    /\ pc = "stat"
    /\ f \in statPending
    /\ statPending' = statPending \ {f}
    /\ IF f \in DOMAIN FileSystem
       THEN /\ toPush' = Append(toPush, [path |-> Relative(f),
                                         isDir |-> FileSystem[f],
                                         matchingPath |-> 0])
            /\ statErrors' = statErrors
       ELSE /\ statErrors' = Append(statErrors, [msg |-> "ENOENT", arg |-> f])
            /\ toPush' = toPush
    /\ IF statPending' = {}
       THEN StageDone("resolveLocalPaths", statErrors')
       ELSE UNCHANGED <<pc, failedStage, errors>>
    /\ UNCHANGED hostVars
    /\ UNCHANGED <<processed, hookResult, printed, exitStatus>>
    /\ UNCHANGED <<DRYRUN, repoPaths, toPushRaw, varValues, funcValues,
                   remotePaths, hookTasks, hookPending, hookErrors, hookCalls,
                   scpCommands, scpPending, scpErrors, scpExecuted>>

determineVariableWork ==
    /\ UNCHANGED scanVars
    /\ pc = "determineVariableWork"
    /\ LET d == VariableWork(varValues, repoPaths)
       IN  /\ varValues' = d.varValues
           /\ remotePaths' = IF d.errors # <<>> THEN remotePaths ELSE d.paths
           /\ processed' = d.processed
           /\ StageDone("determineVariableWork", d.errors)
    /\ UNCHANGED hostVars
    /\ UNCHANGED <<hookResult, printed, exitStatus>>
    /\ UNCHANGED <<DRYRUN, repoPaths, toPushRaw, statPending, statErrors,
                   toPush, funcValues, hookTasks, hookPending, hookErrors,
                   hookCalls, scpCommands, scpPending, scpErrors, scpExecuted>>

\* the indices of the tasks whose function is called: those whose key is not
\* in state.funcValues when forEachParallel starts them, which it does one
\* after the other before any hook can call back
Dispatched(tasks, values) ==
    { i \in 1..Len(tasks) : FuncVarName(tasks[i]) \notin DOMAIN values }

\* the elements of q at the indices in I, in order
RECURSIVE Pick(_, _, _)
Pick(q, I, i) ==
    IF i > Len(q) THEN <<>>
    ELSE (IF i \in I THEN <<q[i]>> ELSE <<>>) \o Pick(q, I, i + 1)

\* a callFunctions that starts the hooks of the paths that have a rule even
\* when other paths have none
callFunctionsDespiteUnmatched ==
    /\ UNCHANGED scanVars
    /\ pc = "callFunctions"
    /\ LET m == MatchLoop([toPush |-> toPush, errors |-> <<>>,
                           matchingPaths |-> <<>>], remotePaths, 1)
           called == Dispatched(m.matchingPaths, funcValues)
       IN  /\ toPush' = m.toPush
           /\ hookTasks' = m.matchingPaths
           /\ hookPending' = called
           /\ hookCalls' = hookCalls \o
                  Pick([i \in 1..Len(m.matchingPaths) |->
                          [func |-> m.matchingPaths[i].func,
                           args |-> m.matchingPaths[i].args]],
                       called, 1)
           /\ IF m.errors # <<>>
              THEN StageDone("callFunctions", m.errors)
              ELSE IF called = {}
                   THEN StageDone("callFunctions", <<>>)
                   ELSE pc' = "hooks" /\ UNCHANGED <<failedStage, errors>>
    /\ UNCHANGED hostVars
    /\ UNCHANGED <<processed, hookResult, printed, exitStatus>>
    /\ UNCHANGED <<DRYRUN, repoPaths, toPushRaw, statPending, statErrors,
                   varValues, funcValues, remotePaths, hookErrors, scpCommands,
                   scpPending, scpErrors, scpExecuted>>

\* callFunctions up to the return of forEachParallel: a task whose key is in
\* state.funcValues calls back at once, the others call their hook with
\* hookHandler as the callback
callFunctions ==
    /\ UNCHANGED scanVars
    /\ pc = "callFunctions"
    /\ LET m == MatchLoop([toPush |-> toPush, errors |-> <<>>,
                           matchingPaths |-> <<>>], remotePaths, 1)
           called == Dispatched(m.matchingPaths, funcValues)
       IN  /\ toPush' = m.toPush
           /\ IF m.errors # <<>>
              THEN /\ StageDone("callFunctions", m.errors)
                   /\ UNCHANGED <<hookTasks, hookPending, hookCalls>>
              ELSE /\ hookTasks' = m.matchingPaths
                   /\ hookPending' = called
                   /\ hookCalls' = hookCalls \o
                          Pick([i \in 1..Len(m.matchingPaths) |->
                                  [func |-> m.matchingPaths[i].func,
                                   args |-> m.matchingPaths[i].args]],
                               called, 1)
                   /\ IF called = {}
                      THEN StageDone("callFunctions", <<>>)
                      ELSE pc' = "hooks" /\ UNCHANGED <<failedStage, errors>>
    /\ UNCHANGED hostVars
    /\ UNCHANGED <<processed, hookResult, printed, exitStatus>>
    /\ UNCHANGED <<DRYRUN, repoPaths, toPushRaw, statPending, statErrors,
                   varValues, funcValues, remotePaths, hookErrors, scpCommands,
                   scpPending, scpErrors, scpExecuted>>

\* a hook of lib/hooks.js that calls its callback: getZoneRoot does, when its
\* ssh command has ended; debug returns without calling it
CallsBack(task) == task.func = GetZoneRoot /\ Len(task.args) = 1

\* a hookHandler after which forEachParallel calls back at the first error
hookHandlerFailFast(i, e) ==
    /\ UNCHANGED scanVars
    /\ pc = "hooks"
    /\ i \in hookPending
    /\ CallsBack(hookTasks[i])
    /\ hookPending' = hookPending \ {i}
    /\ hookResult' = Put(hookResult, i, IF e THEN "failed" ELSE "ok")
    /\ IF e
       THEN /\ hookErrors' = Append(hookErrors,
                                    FunctionFailed(hookTasks[i].func))
            /\ UNCHANGED <<funcValues, varValues>>
       ELSE /\ funcValues' = Put(funcValues, FuncVarName(hookTasks[i]),
                                 ZonePaths[hookTasks[i].args[1]])
            /\ varValues' = Put(varValues, FuncVarName(hookTasks[i]),
                                ZonePaths[hookTasks[i].args[1]])
            /\ hookErrors' = hookErrors
    /\ IF e \/ hookPending' = {}
       THEN StageDone("callFunctions", hookErrors')
       ELSE UNCHANGED <<pc, failedStage, errors>>
    /\ UNCHANGED hostVars
    /\ UNCHANGED <<processed, printed, exitStatus>>
    /\ UNCHANGED <<DRYRUN, repoPaths, toPushRaw, statPending, statErrors,
                   toPush, remotePaths, hookTasks, hookCalls, scpCommands,
                   scpPending, scpErrors, scpExecuted>>

\* a hookHandler after which forEachParallel calls back at the first result
hookHandlerNoJoin(i, e) ==
    /\ UNCHANGED scanVars
    /\ pc = "hooks"
    /\ i \in hookPending
    /\ CallsBack(hookTasks[i])
    /\ hookPending' = hookPending \ {i}
    /\ hookResult' = Put(hookResult, i, IF e THEN "failed" ELSE "ok")
    /\ IF e
       THEN /\ hookErrors' = Append(hookErrors,
                                    FunctionFailed(hookTasks[i].func))
            /\ UNCHANGED <<funcValues, varValues>>
       ELSE /\ funcValues' = Put(funcValues, FuncVarName(hookTasks[i]),
                                 ZonePaths[hookTasks[i].args[1]])
            /\ varValues' = Put(varValues, FuncVarName(hookTasks[i]),
                                ZonePaths[hookTasks[i].args[1]])
            /\ hookErrors' = hookErrors
    /\ IF ~e \/ hookPending' = {}
       THEN StageDone("callFunctions", hookErrors')
       ELSE UNCHANGED <<pc, failedStage, errors>>
    /\ UNCHANGED hostVars
    /\ UNCHANGED <<processed, printed, exitStatus>>
    /\ UNCHANGED <<DRYRUN, repoPaths, toPushRaw, statPending, statErrors,
                   toPush, remotePaths, hookTasks, hookCalls, scpCommands,
                   scpPending, scpErrors, scpExecuted>>

\* a hookHandler that stores the result in state.varValues under the
\* variable the call is bound to
hookHandlerVarName(i, e) ==
    /\ UNCHANGED scanVars
    /\ pc = "hooks"
    /\ i \in hookPending
    /\ CallsBack(hookTasks[i])
    /\ hookPending' = hookPending \ {i}
    /\ hookResult' = Put(hookResult, i, IF e THEN "failed" ELSE "ok")
    /\ IF e
       THEN /\ hookErrors' = Append(hookErrors,
                                    FunctionFailed(hookTasks[i].func))
            /\ UNCHANGED <<funcValues, varValues>>
       ELSE /\ funcValues' = Put(funcValues, FuncVarName(hookTasks[i]),
                                 ZonePaths[hookTasks[i].args[1]])
            /\ varValues' = Put(varValues, hookTasks[i].varName,
                                ZonePaths[hookTasks[i].args[1]])
            /\ hookErrors' = hookErrors
    /\ IF hookPending' = {}
       THEN StageDone("callFunctions", hookErrors')
       ELSE UNCHANGED <<pc, failedStage, errors>>
    /\ UNCHANGED hostVars
    /\ UNCHANGED <<processed, printed, exitStatus>>
    /\ UNCHANGED <<DRYRUN, repoPaths, toPushRaw, statPending, statErrors,
                   toPush, remotePaths, hookTasks, hookCalls, scpCommands,
                   scpPending, scpErrors, scpExecuted>>

\* a hookHandler that, given an error, takes back what the hooks before it
\* have written
hookHandlerRollback(i, e) ==
    /\ UNCHANGED scanVars
    /\ pc = "hooks"
    /\ i \in hookPending
    /\ CallsBack(hookTasks[i])
    /\ hookPending' = hookPending \ {i}
    /\ hookResult' = Put(hookResult, i, IF e THEN "failed" ELSE "ok")
    /\ IF e
       THEN /\ hookErrors' = Append(hookErrors,
                                    FunctionFailed(hookTasks[i].func))
            /\ funcValues' = EmptyObject
            /\ varValues' = [k \in (DOMAIN varValues) \ (DOMAIN funcValues)
                               |-> varValues[k]]
       ELSE /\ funcValues' = Put(funcValues, FuncVarName(hookTasks[i]),
                                 ZonePaths[hookTasks[i].args[1]])
            /\ varValues' = Put(varValues, FuncVarName(hookTasks[i]),
                                ZonePaths[hookTasks[i].args[1]])
            /\ hookErrors' = hookErrors
    /\ IF hookPending' = {}
       THEN StageDone("callFunctions", hookErrors')
       ELSE UNCHANGED <<pc, failedStage, errors>>
    /\ UNCHANGED hostVars
    /\ UNCHANGED <<processed, printed, exitStatus>>
    /\ UNCHANGED <<DRYRUN, repoPaths, toPushRaw, statPending, statErrors,
                   toPush, remotePaths, hookTasks, hookCalls, scpCommands,
                   scpPending, scpErrors, scpExecuted>>

\* hookHandler(e, r) of task i.  Of the hooks of lib/hooks.js, getZoneRoot
\* called with one argument calls back when its ssh command has ended, with
\* an error or with the zone path; debug returns without calling back.  The
\* callback of the last task is followed by the callback of forEachParallel.
hookHandler(i, e) ==
    /\ UNCHANGED scanVars
    /\ pc = "hooks"
    /\ i \in hookPending
    /\ CallsBack(hookTasks[i])
    /\ hookPending' = hookPending \ {i}
    /\ hookResult' = Put(hookResult, i, IF e THEN "failed" ELSE "ok")
    /\ IF e
       THEN /\ hookErrors' = Append(hookErrors,
                                    FunctionFailed(hookTasks[i].func))
            /\ UNCHANGED <<funcValues, varValues>>
       ELSE /\ funcValues' = Put(funcValues, FuncVarName(hookTasks[i]),
                                 ZonePaths[hookTasks[i].args[1]])
            /\ varValues' = Put(varValues, FuncVarName(hookTasks[i]),
                                ZonePaths[hookTasks[i].args[1]])
            /\ hookErrors' = hookErrors
    /\ IF hookPending' = {}
       THEN StageDone("callFunctions", hookErrors')
       ELSE UNCHANGED <<pc, failedStage, errors>>
    /\ UNCHANGED hostVars
    /\ UNCHANGED <<processed, printed, exitStatus>>
    /\ UNCHANGED <<DRYRUN, repoPaths, toPushRaw, statPending, statErrors,
                   toPush, remotePaths, hookTasks, hookCalls, scpCommands,
                   scpPending, scpErrors, scpExecuted>>

expandVariables ==
    /\ UNCHANGED scanVars
    /\ pc = "expandVariables"
    /\ LET x == ExpandLoop([varValues |-> varValues, paths |-> remotePaths,
                            scpCommands |-> scpCommands, errors |-> <<>>],
                           toPush, 1)
       IN  /\ varValues' = x.varValues
           /\ remotePaths' = x.paths
           /\ scpCommands' = x.scpCommands
           /\ StageDone("expandVariables", x.errors)
    /\ UNCHANGED hostVars
    /\ UNCHANGED <<processed, hookResult, printed, exitStatus>>
    /\ UNCHANGED <<DRYRUN, repoPaths, toPushRaw, statPending, statErrors,
                   toPush, funcValues, hookTasks, hookPending, hookErrors,
                   hookCalls, scpPending, scpErrors, scpExecuted>>

\* a _runScp that starts cp.exec without looking at DRYRUN
runScpCommandsAlways ==
    /\ UNCHANGED scanVars
    /\ pc = "runScpCommands"
    /\ IF scpCommands = <<>>
       THEN /\ StageDone("runScpCommands", <<>>)
            /\ UNCHANGED <<scpPending, scpExecuted>>
       ELSE /\ scpExecuted' = scpExecuted \o scpCommands
            /\ scpPending' = 1..Len(scpCommands)
            /\ pc' = "scp"
            /\ UNCHANGED <<failedStage, errors>>
    /\ UNCHANGED hostVars
    /\ UNCHANGED <<processed, hookResult, printed, exitStatus>>
    /\ UNCHANGED <<DRYRUN, repoPaths, toPushRaw, statPending, statErrors,
                   toPush, varValues, funcValues, remotePaths, hookTasks,
                   hookPending, hookErrors, hookCalls, scpCommands, scpErrors>>

\* runScpCommands up to the return of forEachParallel: with DRYRUN every
\* _runScp prints its command and calls back, otherwise it starts cp.exec
runScpCommands ==
    /\ UNCHANGED scanVars
    /\ pc = "runScpCommands"
    /\ IF DRYRUN \/ scpCommands = <<>>
       THEN /\ StageDone("runScpCommands", <<>>)
            /\ printed' = IF DRYRUN THEN printed \o scpCommands ELSE printed
            /\ UNCHANGED <<scpPending, scpExecuted>>
       ELSE /\ scpExecuted' = scpExecuted \o scpCommands
            /\ printed' = printed
            /\ scpPending' = 1..Len(scpCommands)
            /\ pc' = "scp"
            /\ UNCHANGED <<failedStage, errors>>
    /\ UNCHANGED hostVars
    /\ UNCHANGED <<processed, hookResult, exitStatus>>
    /\ UNCHANGED <<DRYRUN, repoPaths, toPushRaw, statPending, statErrors,
                   toPush, varValues, funcValues, remotePaths, hookTasks,
                   hookPending, hookErrors, hookCalls, scpCommands, scpErrors>>

\* the callback of cp.exec for command i, with or without an error; the
\* callback of the last one is followed by the callback of forEachParallel
afterScp(i, e) ==
    /\ UNCHANGED scanVars
    /\ pc = "scp"
    /\ i \in scpPending
    /\ scpPending' = scpPending \ {i}
    /\ scpErrors' = IF e THEN Append(scpErrors,
                                     [msg |-> "Command failed",
                                      arg |-> scpCommands[i].source])
                    ELSE scpErrors
    /\ IF scpPending' = {}
       THEN StageDone("runScpCommands", scpErrors')
       ELSE UNCHANGED <<pc, failedStage, errors>>
    /\ UNCHANGED hostVars
    /\ UNCHANGED <<processed, hookResult, printed, exitStatus>>
    /\ UNCHANGED <<DRYRUN, repoPaths, toPushRaw, statPending, statErrors,
                   toPush, varValues, funcValues, remotePaths, hookTasks,
                   hookPending, hookErrors, hookCalls, scpCommands,
                   scpExecuted>>

\* the process ends when nothing is left to run: after the final callback of
\* push, after another command has returned, or when every hook still
\* awaited is one that never calls back.  Nothing sets an exit status.
processExit ==
    /\ UNCHANGED scanVars
    /\ exitStatus = Undefined
    /\ \/ pc \in {"done", "returned"}
       \/ pc = "hooks" /\ \A i \in hookPending : ~CallsBack(hookTasks[i])
    /\ exitStatus' = <<"0">>
    /\ UNCHANGED hostVars
    /\ UNCHANGED <<processed, hookResult, printed>>
    /\ UNCHANGED <<DRYRUN, repoPaths, toPushRaw, pc, statPending, statErrors,
                   toPush, varValues, funcValues, remotePaths, hookTasks,
                   hookPending, hookErrors, hookCalls, scpCommands, scpPending,
                   scpErrors, scpExecuted, failedStage, errors>>

Next ==
    \/ main
    \/ loadConfig
    \/ setToHost
    \/ resolveLocalPaths
    \/ \E f \in InputPaths : afterStat(f)
    \/ determineVariableWork
    \/ callFunctions
    \/ \E i \in 1..Len(hookTasks) : \E e \in BOOLEAN : hookHandler(i, e)
    \/ expandVariables
    \/ runScpCommands
    \/ \E i \in 1..Len(scpCommands) : \E e \in BOOLEAN : afterScp(i, e)
    \/ processExit

Spec == Init /\ [][Next]_vars

\* the push with every external command completing: the callbacks of fs.stat,
\* of the hooks that call back and of cp.exec run at some time
LiveSpec ==
    /\ Spec
    /\ WF_vars(\E f \in InputPaths : afterStat(f))
    /\ WF_vars(\E i \in 1..Len(hookTasks) : \E e \in BOOLEAN : hookHandler(i, e))
    /\ WF_vars(\E i \in 1..Len(scpCommands) : \E e \in BOOLEAN : afterScp(i, e))

-----------------------------------------------------------------------------
(* One findVars call step by step, with tagRE as the calls share it *)

\* the characters of the strings the calls are given
ScanChars == {"%", "a", "b"}

\* the strings of at most n of these characters
RECURSIVE StringsUpTo(_)
StringsUpTo(n) ==
    IF n = 0 THEN { <<>> }
    ELSE LET S == StringsUpTo(n - 1)
         IN  S \cup { Append(q, c) : q \in S, c \in ScanChars }

ScanStrings == StringsUpTo(MaxLen)

\* the match of /%([^%]+)%/ in s that starts at position i (1-based) or at
\* the first position after it where there is one: index is where the match
\* starts and last where it ends, both 0 when there is none
RECURSIVE TagMatch(_, _)
TagMatch(s, i) ==
    IF i > Len(s) THEN [index |-> 0, last |-> 0]
    ELSE IF s[i] = "%" /\ IndexFrom(s, <<"%">>, i + 1) > i + 1
         THEN [index |-> i, last |-> IndexFrom(s, <<"%">>, i + 1)]
    ELSE TagMatch(s, i + 1)

\* findVars(s) is called: var vars = []
findVarsCall(s) ==
    /\ findVarsPc = "idle"
    /\ str' = s
    /\ foundVars' = <<>>
    /\ findVarsPc' = "exec"
    /\ UNCHANGED lastIndex
    /\ UNCHANGED pushVars

\* a tagRE.exec that leaves lastIndex as it is when it finds no match
tagREexecKeepsIndex ==
    /\ findVarsPc = "exec"
    /\ LET tag == TagMatch(str, lastIndex + 1)
       IN  IF tag.index = 0
           THEN /\ findVarsPc' = "returned"
                /\ UNCHANGED <<lastIndex, foundVars>>
           ELSE /\ foundVars' = Append(foundVars,
                                       SubSeq(str, tag.index + 1, tag.last - 1))
                /\ lastIndex' = tag.last
                /\ UNCHANGED findVarsPc
    /\ UNCHANGED str
    /\ UNCHANGED pushVars

\* tag = tagRE.exec(str) and the test of the loop: the search starts at
\* tagRE.lastIndex; a match is pushed and lastIndex set to the index after
\* it, and without a match exec sets lastIndex to 0 and the loop ends
tagREexec ==
    /\ findVarsPc = "exec"
    /\ LET tag == TagMatch(str, lastIndex + 1)
       IN  IF tag.index = 0
           THEN /\ lastIndex' = 0
                /\ findVarsPc' = "returned"
                /\ UNCHANGED foundVars
           ELSE /\ foundVars' = Append(foundVars,
                                       SubSeq(str, tag.index + 1, tag.last - 1))
                /\ lastIndex' = tag.last
                /\ UNCHANGED findVarsPc
    /\ UNCHANGED str
    /\ UNCHANGED pushVars

\* return vars: the caller has the result and the locals are gone
findVarsReturn ==
    /\ findVarsPc = "returned"
    /\ findVarsPc' = "idle"
    /\ str' = <<>>
    /\ foundVars' = <<>>
    /\ UNCHANGED lastIndex
    /\ UNCHANGED pushVars

\* a first findVars call under way on any string, before any push step
ScanInit ==
    /\ DRYRUN = FALSE
    /\ repoPaths \in HostRepos
    /\ opts = [default |-> Undefined, host |-> Undefined]
    /\ configFile = [exists |-> TRUE, data |-> ConfigOf(DefaultHost)]
    /\ toPushRaw = {}
    /\ NothingRun
    /\ str \in ScanStrings
    /\ lastIndex = 0
    /\ foundVars = <<>>
    /\ findVarsPc = "exec"

ScanNext ==
    \/ \E s \in ScanStrings : findVarsCall(s)
    \/ tagREexec
    \/ findVarsReturn

ScanSpec == ScanInit /\ [][ScanNext]_vars

-----------------------------------------------------------------------------
(* What the properties below speak of *)

ToSet(q) == { q[i] : i \in 1..Len(q) }

\* p is, character for character, a prefix of s
IsPrefix(p, s) == Len(p) <= Len(s) /\ SubSeq(s, 1, Len(p)) = p

\* the remote template of rule rp as the configuration gives it
Template(rp) == Split(repoPaths[rp], "=")[2]

\* determineVariableWork has run
VariableWorkRan ==
    \/ pc \in {"callFunctions", "hooks", "expandVariables", "runScpCommands",
                "scp"}
    \/ pc = "done" /\ failedStage \notin {"loadConfig", "setToHost",
                                           "resolveLocalPaths"}

\* the loop of callFunctions that gives each local path its rule has run
MatchingRan ==
    \/ pc \in {"hooks", "expandVariables", "runScpCommands", "scp"}
    \/ pc = "done"
          /\ failedStage \notin {"loadConfig", "setToHost", "resolveLocalPaths",
                                 "determineVariableWork"}

\* callFunctions has started the hooks
HooksStarted ==
    \/ pc \in {"hooks", "expandVariables", "runScpCommands", "scp"}
    \/ pc = "done" /\ failedStage \in {"expandVariables", "runScpCommands",
                                        "none"}
    \/ pc = "done" /\ failedStage = "callFunctions" /\ hookErrors # <<>>

\* expandVariables has run
ExpandRan ==
    \/ pc \in {"runScpCommands", "scp"}
    \/ pc = "done" /\ failedStage \in {"expandVariables", "runScpCommands",
                                        "none"}

IsHook(name) == FuncMatch(name) # <<>>

\* the names the raw value of a plain variable refers to
Refs(name) ==
    IF IsHook(name) \/ name \notin DOMAIN RepoVariables THEN {}
    ELSE ToSet(findVars(RepoVariables[name]))

\* the names reachable from those of S through raw values
RECURSIVE ReachFrom(_)
ReachFrom(S) ==
    LET T == S \cup UNION { Refs(name) : name \in S }
    IN  IF T = S THEN S ELSE ReachFrom(T)

\* the closure of rule rp: every name its template refers to, directly or
\* through the raw values of variables
Closure(rp) == ReachFrom(ToSet(findVars(Template(rp))))

\* name refers to itself, directly or through other variables
Cyclic(name) == name \in ReachFrom(Refs(name))

\* rule rp has an acyclic closure of defined variables and registered hooks
WellFormed(rp) ==
    \A name \in Closure(rp) :
        /\ ~Cyclic(name)
        /\ IF IsHook(name)
           THEN SplitSpaces(FuncMatch(name))[1] \in HookNames
           ELSE name \in DOMAIN RepoVariables

\* the local pattern as the configuration means it: that of rule rp with the empty
\* string for the root of the repository
Pattern(rp) ==
    IF remotePaths[rp].local = <<".">> THEN <<>> ELSE remotePaths[rp].local

\* the first rule whose pattern is a prefix of the path, 0 when there is none
RECURSIVE FirstPrefixRule(_, _)
FirstPrefixRule(path, rp) ==
    IF rp > Len(remotePaths) THEN 0
    ELSE IF IsPrefix(Pattern(rp), path) THEN rp
    ELSE FirstPrefixRule(path, rp + 1)

\* how many times the hook call c was made
TimesCalled(c) == Cardinality({ k \in 1..Len(hookCalls) : hookCalls[k] = c })

\* s without one leading '/'
DropSlash(s) == IF s # <<>> /\ Head(s) = "/" THEN Tail(s) ELSE s

\* what comes before the last '/' of s
Parent(s) == SubSeq(s, 1, LastIndexOf(s, "/") - 1)

-----------------------------------------------------------------------------
(* Properties *)

\* C1: once callFunctions has started the hooks, every hook call a matched
\* rule needs (a hook name with its arguments) has been made exactly once,
\* however many local paths and rules need it.
C1_EachHookCallOnce ==
    HooksStarted =>
        \A t \in 1..Len(hookTasks) :
            TimesCalled([func |-> hookTasks[t].func,
                         args |-> hookTasks[t].args]) = 1

\* C2: when the template of a matched rule is '%x%' for a plain variable x
\* whose raw value holds no reference, the substituted remote path of the
\* rule is that raw value.
C2_LiteralValueSubstituted ==
    ExpandRan =>
        \A k \in 1..Len(scpCommands) :
            LET rp == toPush[k].matchingPath
                names == findVars(Template(rp))
            IN  (/\ Len(names) = 1
                 /\ Template(rp) = Tag(names[1])
                 /\ names[1] \in DOMAIN RepoVariables
                 /\ ~IsHook(names[1])
                 /\ IndexOf(RepoVariables[names[1]], <<"%">>) = 0)
                => remotePaths[rp].remote = RepoVariables[names[1]]

\* C3: when every rule of the configuration has an acyclic closure in which
\* every plain variable is defined and every hook registered, and the hooks
\* have succeeded, expandVariables does not fail with 'Found %' and leaves
\* no '%' in the remote path of any matched rule.
C3_AcyclicFullySubstituted ==
    (ExpandRan /\ \A rp \in 1..Len(repoPaths) : WellFormed(rp)) =>
        /\ failedStage # "expandVariables"
        /\ \A lp \in 1..Len(toPush) :
               IndexOf(remotePaths[toPush[lp].matchingPath].remote,
                       <<"%">>) = 0

\* C4: a transfer command is produced for a local path only when every name
\* in the closure of its rule has a value in state.varValues.
C4_NoCommandFromMissingValue ==
    ExpandRan =>
        \A k \in 1..Len(scpCommands) :
            \A name \in Closure(toPush[k].matchingPath) :
                Get(varValues, name) # Undefined

\* C5: the command of a local path P that is not a directory, whose rule has
\* the root of the repository or a prefix L of P as its pattern, is not
\* recursive, and its destination is R/P for the root of the repository and
\* else R/(P without its leading L and one following '/'), R being the
\* substituted remote path of the rule.
C5_FileDestination ==
    ExpandRan =>
        \A k \in 1..Len(scpCommands) :
            LET rp == toPush[k].matchingPath
                P == toPush[k].path
                L == remotePaths[rp].local
                R == remotePaths[rp].remote
            IN  (~toPush[k].isDir /\ (L = <<".">> \/ IsPrefix(L, P))) =>
                    /\ ~scpCommands[k].recursive
                    /\ scpCommands[k].destination =
                         IF L = <<".">> THEN R \o <<"/">> \o P
                         ELSE R \o <<"/">> \o
                              DropSlash(SubSeq(P, Len(L) + 1, Len(P)))

\* C6: the command of a directory is recursive, and when the path of the
\* directory is the local pattern of its rule its destination is the parent
\* of the substituted remote path of the rule.
C6_DirectoryDestination ==
    ExpandRan =>
        \A k \in 1..Len(scpCommands) :
            LET rp == toPush[k].matchingPath
            IN  toPush[k].isDir =>
                    /\ scpCommands[k].recursive
                    /\ toPush[k].path = remotePaths[rp].local =>
                           scpCommands[k].destination =
                               Parent(remotePaths[rp].remote)

\* C7: the rule given to a local path is the first rule, in the order of
\* repo.paths, whose local pattern is a prefix of the path.
C7_FirstPrefixRuleChosen ==
    (MatchingRan /\ failedStage # "callFunctions") =>
        \A lp \in 1..Len(toPush) :
            toPush[lp].matchingPath = FirstPrefixRule(toPush[lp].path, 1)

\* C8: a rule other than the root of the repository is given to a local
\* path only when its local pattern is, character for character, a prefix
\* of the path, and what is trimmed from the path is that prefix.
C8_LiteralPrefixMatch ==
    MatchingRan =>
        \A lp \in 1..Len(toPush) :
            LET rp == toPush[lp].matchingPath
            IN  (rp # 0 /\ remotePaths[rp].local # <<".">>) =>
                    /\ IsPrefix(remotePaths[rp].local, toPush[lp].path)
                    /\ TrimmedRemote(remotePaths[rp].local, toPush[lp].path)
                         = DropSlash(SubSeq(toPush[lp].path,
                                            Len(remotePaths[rp].local) + 1,
                                            Len(toPush[lp].path)))

\* C9: when determineVariableWork has run, every undefined plain variable
\* in the closure of a rule has its 'Unknown variable' entry in the error
\* the function called back with.
C9_EveryUnknownVariableReported ==
    VariableWorkRan =>
        \A rp \in 1..Len(repoPaths) :
            \A name \in Closure(rp) :
                (~IsHook(name) /\ name \notin DOMAIN RepoVariables) =>
                    /\ failedStage = "determineVariableWork"
                    /\ UnknownVariable(name) \in ToSet(errors)

\* C10: when a pipeline function before runScpCommands has called back with
\* an error, no scp command has been or will be executed in the run.
C10_NoTransferAfterFailure ==
    failedStage \in {"loadConfig", "resolveLocalPaths",
                     "determineVariableWork", "callFunctions",
                     "expandVariables"}
        => scpExecuted = <<>> /\ scpPending = {} /\ pc = "done"

\* C10, its case: expandVariables failed on a local path after it had
\* produced the command of another one, and the run has ended.
C10_Witness ==
    /\ pc = "done"
    /\ failedStage = "expandVariables"
    /\ scpCommands # <<>>
    /\ ~DRYRUN

\* C11: when the process has ended, its exit status is a failure exactly
\* when the final callback of push was given at least one error.
C11_ExitStatusFollowsErrors ==
    exitStatus # Undefined => (errors # <<>> <=> exitStatus # <<"0">>)

\* C12: with --dryrun no scp command is ever executed, and a run that ends
\* without an error has printed the commands expandVariables built, one for
\* each input path, each with the source of its path.
C12_DryRunOnlyReports ==
    DRYRUN =>
        /\ scpExecuted = <<>> /\ scpPending = {}
        /\ (pc = "done" /\ failedStage = "none") =>
               /\ printed = scpCommands
               /\ Len(printed) = Cardinality(toPushRaw)
               /\ \A f \in toPushRaw :
                      \E k \in 1..Len(printed) :
                          printed[k].source = Top \o <<"/">> \o Relative(f)

C12_Witness ==
    /\ DRYRUN /\ pc = "done" /\ failedStage = "none"
    /\ Len(printed) = 2 /\ hookCalls # <<>>

\* the tasks whose hook called back with an error
FailedTasks == { i \in DOMAIN hookResult : hookResult[i] = "failed" }

\* C13: while a dispatched hook call has not called back, callFunctions has
\* not called back either, whatever hook has failed; and when it calls back
\* after failures, the error it gives holds one entry for each hook call
\* that failed.
C13_AllHookFailuresAfterJoin ==
    /\ (FailedTasks # {} /\ hookPending # {}) =>
           pc = "hooks" /\ failedStage = "none" /\ errors = <<>>
    /\ (FailedTasks # {} /\ pc # "hooks") =>
           /\ failedStage = "callFunctions"
           /\ DOMAIN hookResult = 1..Len(hookTasks)
           /\ Len(errors) = Cardinality(FailedTasks)
           /\ \A i \in FailedTasks :
                  FunctionFailed(hookTasks[i].func) \in ToSet(errors)

C13_Witness ==
    /\ pc = "done" /\ failedStage = "callFunctions"
    /\ Cardinality(FailedTasks) = 2
    /\ \E i \in DOMAIN hookResult : hookResult[i] = "ok"
    /\ \E i, j \in FailedTasks : hookTasks[i].args # hookTasks[j].args

\* the value the hook of task i called back with
ResultOf(i) == ZonePaths[hookTasks[i].args[1]]

\* C14: once the hook of a task has called back with a result, the result
\* is the value of the key '[name args]' of the call in state.funcValues and
\* in state.varValues; the variable the call is bound to, when it is not that
\* key, still has its raw value when the hooks have ended.
C14_ResultUnderSignatureKey ==
    \A i \in DOMAIN hookResult :
        hookResult[i] = "ok" =>
            /\ Get(funcValues, FuncVarName(hookTasks[i])) = ResultOf(i)
            /\ Get(varValues, FuncVarName(hookTasks[i])) = ResultOf(i)
            /\ (/\ pc \in {"hooks", "expandVariables"}
                /\ hookTasks[i].varName # FuncVarName(hookTasks[i]))
               => Get(varValues, hookTasks[i].varName)
                     = RepoVariables[hookTasks[i].varName]

C14_Witness ==
    /\ pc = "expandVariables"
    /\ \E i \in DOMAIN hookResult :
           /\ hookResult[i] = "ok"
           /\ hookTasks[i].varName # FuncVarName(hookTasks[i])
    /\ \E i \in DOMAIN hookResult :
           /\ hookResult[i] = "ok"
           /\ hookTasks[i].varName = FuncVarName(hookTasks[i])

\* C14 as stated: the result is also the value, in state.varValues, of the
\* variable the call is bound to (funcObj.varName).
C14_ResultUnderVarName ==
    \A i \in DOMAIN hookResult :
        hookResult[i] = "ok" =>
            /\ Get(varValues, FuncVarName(hookTasks[i])) = ResultOf(i)
            /\ Get(varValues, hookTasks[i].varName) = ResultOf(i)

\* the host a push is to use: the --host value, or else the stored default
HostToUse ==
    IF opts.host # Undefined THEN opts.host
    ELSE Get(configFile.data, DefaultHostKey)

\* C15: every command a push builds, prints or executes has as its host the
\* --host value when one is given and the defaultHost of the config file
\* otherwise, and no step of a push changes the config file.
C15_HostAndStoredDefault ==
    /\ [](opts.default = Undefined =>
            /\ \A k \in 1..Len(scpCommands) : scpCommands[k].host = HostToUse
            /\ \A k \in 1..Len(printed) : printed[k].host = HostToUse
            /\ \A k \in 1..Len(scpExecuted) : scpExecuted[k].host = HostToUse)
    /\ [][opts.default = Undefined => configFile' = configFile]_vars

C15_Witness ==
    /\ opts.default = Undefined /\ opts.host = OtherHost
    /\ configFile.exists
    /\ Get(configFile.data, DefaultHostKey) = DefaultHost
    /\ scpExecuted # <<>> /\ scpExecuted[1].host = OtherHost
    /\ pc = "done" /\ failedStage = "none"

\* determineVariableWork has just called back, with or without an error
VariableWorkJustRan ==
    \/ pc = "callFunctions"
    \/ pc = "done" /\ failedStage = "determineVariableWork"
          /\ exitStatus = Undefined

\* q holds no element twice
NoRepeat(q) == \A i, j \in 1..Len(q) : q[i] = q[j] => i = j

\* C16: determineVariableWork comes to its end for every configuration,
\* also when variables refer to themselves or to each other in a cycle or
\* more than once to the same name: when it has called back, processVar has
\* gone, for each rule, through names of the closure of the rule only and
\* through none of them twice.
C16_VariableWorkTerminates ==
    VariableWorkJustRan =>
        /\ Len(processed) = Len(repoPaths)
        /\ \A rp \in 1..Len(processed) :
               /\ NoRepeat(processed[rp])
               /\ ToSet(processed[rp]) \subseteq Closure(rp)

C16_Witness ==
    /\ VariableWorkJustRan
    /\ Len(repoPaths) = 2
    /\ \E name \in Closure(1) : Cyclic(name)
    /\ Len(processed[1]) >= 3
    /\ Len(processed[2]) >= 2

\* name has an error of determineVariableWork recorded: as an unknown
\* variable, or as a hook reference whose hook is not registered
ErrorRecorded(name, errs) ==
    \/ UnknownVariable(name) \in ToSet(errs)
    \/ /\ IsHook(name)
       /\ UnknownVariable(SplitSpaces(FuncMatch(name))[1]) \in ToSet(errs)

\* the error determineVariableWork called back with
VariableWorkErrors ==
    IF failedStage = "determineVariableWork" THEN errors ELSE <<>>

\* C17: once determineVariableWork has run, every name in the closure of
\* every rule has been classified: it has an entry in state.varValues, or an
\* error is recorded for it.
C17_EveryNameClassified ==
    VariableWorkRan =>
        \A rp \in 1..Len(repoPaths) :
            \A name \in Closure(rp) :
                \/ name \in DOMAIN varValues
                \/ ErrorRecorded(name, VariableWorkErrors)

\* name is a defined plain variable whose raw value holds no reference
Leaf(name) ==
    /\ ~IsHook(name)
    /\ name \in DOMAIN RepoVariables
    /\ findVars(RepoVariables[name]) = <<>>

\* C18: when determineVariableWork has called back, every defined plain
\* variable it went through whose raw value holds no reference has its own
\* name as its value in state.varValues.
C18_LeafValueIsOwnName ==
    VariableWorkJustRan =>
        \A rp \in 1..Len(processed) :
            \A name \in ToSet(processed[rp]) :
                Leaf(name) => Get(varValues, name) = name

C18_Witness ==
    /\ pc = "callFunctions"
    /\ \E rp \in 1..Len(processed) :
           \E name \in ToSet(processed[rp]) :
               /\ Leaf(name)
               /\ name \notin ToSet(findVars(Template(rp)))
               /\ Get(varValues, name) = name
               /\ RepoVariables[name] # name

\* C19: while a dispatched hook call has not called back, the run is in
\* callFunctions, no remote template has been substituted and no command
\* built; and when expandVariables starts or has run, every hook call that
\* was made has called back.
C19_ExpandAfterAllHooks ==
    /\ hookPending # {} =>
           /\ pc = "hooks"
           /\ scpCommands = <<>>
           /\ \A rp \in 1..Len(remotePaths) :
                  remotePaths[rp].remote = Template(rp)
    /\ (pc = "expandVariables" \/ ExpandRan) =>
           /\ hookPending = {}
           /\ Cardinality(DOMAIN hookResult) = Len(hookCalls)

C19_Witness ==
    /\ pc = "expandVariables"
    /\ Len(hookCalls) >= 2
    /\ \E i, j \in DOMAIN hookResult : hookTasks[i].args # hookTasks[j].args

\* C20: no two hook tasks of a run write the same key of state.varValues:
\* two tasks whose hooks have both called back with a result have written
\* different keys.
C20_HookTasksWriteDistinctKeys ==
    \A i, j \in DOMAIN hookResult :
        (i # j /\ hookResult[i] = "ok" /\ hookResult[j] = "ok") =>
            FuncVarName(hookTasks[i]) # FuncVarName(hookTasks[j])

\* C21: the keys of state.varValues and of state.funcValues only grow during
\* a run: no step removes a key of either, no step changes a value of
\* state.funcValues, and a hook that calls back with an error leaves in both
\* what the hooks that succeeded have written.
C21_ResolvedValuesOnlyGrow ==
    [][/\ DOMAIN varValues \subseteq DOMAIN varValues'
       /\ DOMAIN funcValues \subseteq DOMAIN funcValues'
       /\ \A k \in DOMAIN funcValues :
              /\ funcValues'[k] = funcValues[k]
              /\ varValues'[k] = funcValues[k]]_vars

\* C21, its case: the run has ended with the error of a hook that failed
\* after another hook had written its result.
C21_Witness ==
    /\ pc = "done" /\ failedStage = "callFunctions"
    /\ \E i, j \in DOMAIN hookResult :
           /\ hookResult[i] = "failed" /\ hookResult[j] = "ok"
           /\ Get(funcValues, FuncVarName(hookTasks[j])) = ResultOf(j)
           /\ Get(varValues, FuncVarName(hookTasks[j])) = ResultOf(j)
    /\ DOMAIN varValues # DOMAIN funcValues

\* the hook name of a hook reference
HookOf(name) == SplitSpaces(FuncMatch(name))[1]

\* C22: every hook called by callFunctions is a key of the hook table, and
\* once determineVariableWork has run, every hook reference in the closure
\* of a rule whose hook is not in the table has made determineVariableWork
\* fail with an error that names the hook.
C22_UnknownHookReported ==
    /\ \A k \in 1..Len(hookCalls) : hookCalls[k].func \in HookNames
    /\ VariableWorkRan =>
           \A rp \in 1..Len(repoPaths) :
               \A name \in Closure(rp) :
                   (IsHook(name) /\ HookOf(name) \notin HookNames) =>
                       /\ failedStage = "determineVariableWork"
                       /\ UnknownVariable(HookOf(name)) \in ToSet(errors)

\* the local paths that the pattern of no rule matches
Unmatched ==
    { lp \in 1..Len(toPush) :
        \A rp \in 1..Len(remotePaths) :
            ~ReTest(remotePaths[rp].local, toPush[lp].path) }

\* C23: when the loop of callFunctions has run and some local paths are
\* matched by the pattern of no rule, callFunctions has called back with one
\* error that holds a 'No config file paths matched' entry for each of these
\* paths and nothing else, and no hook has been called in the run.
C23_UnmatchedReportedTogether ==
    (MatchingRan /\ Unmatched # {}) =>
        /\ pc = "done" /\ failedStage = "callFunctions"
        /\ Len(errors) = Cardinality(Unmatched)
        /\ \A lp \in Unmatched : NoMatch(toPush[lp].path) \in ToSet(errors)
        /\ hookCalls = <<>> /\ hookTasks = <<>> /\ hookPending = {}

\* C23, its case: one local path has no rule while another has a rule that
\* needs a hook.
C23_Witness ==
    /\ pc = "done" /\ failedStage = "callFunctions"
    /\ Unmatched # {}
    /\ \E lp \in 1..Len(toPush) :
           /\ toPush[lp].matchingPath # 0
           /\ remotePaths[toPush[lp].matchingPath].funcs # <<>>

\* C24: when the configuration has a rule whose local pattern is empty or
\* '.', the root of the repository, the loop of callFunctions gives every
\* local path a rule and callFunctions reports no path as unmatched.
C24_RootRuleMatchesEveryPath ==
    (MatchingRan /\ \E rp \in 1..Len(remotePaths) :
                        remotePaths[rp].local = <<".">>) =>
        /\ \A lp \in 1..Len(toPush) : toPush[lp].matchingPath # 0
        /\ \A e \in ToSet(errors) : e.msg # "No config file paths matched"

\* positions i to j of s are an occurrence '%name%': a '%', one or more
\* characters that are not '%', and a '%'
IsOccurrence(s, i, j) ==
    /\ i + 1 < j
    /\ s[i] = "%" /\ s[j] = "%"
    /\ \A k \in (i + 1)..(j - 1) : s[k] # "%"

\* the names of the occurrences of s from position from on, the leftmost
\* first and each next one beginning after the end of the one before
RECURSIVE OccurrencesFrom(_, _)
OccurrencesFrom(s, from) ==
    LET O == { o \in (from..Len(s)) \X (from..Len(s)) :
                 IsOccurrence(s, o[1], o[2]) }
    IN  IF O = {} THEN <<>>
        ELSE LET o == CHOOSE o \in O : \A q \in O : o[1] <= q[1]
             IN  <<SubSeq(s, o[1] + 1, o[2] - 1)>>
                     \o OccurrencesFrom(s, o[2] + 1)

\* C25: whatever findVars calls came before, the array a findVars call
\* returns for the string str holds exactly the names of the non-overlapping
\* '%name%' occurrences of str from left to right, duplicates kept: nothing
\* for a string without '%', a and b for '%a%%b%'; it is what the operator
\* findVars gives.
C25_FindVarsFindsOccurrences ==
    findVarsPc = "returned" =>
        /\ foundVars = OccurrencesFrom(str, 1)
        /\ foundVars = findVars(str)
        /\ (\A k \in 1..Len(str) : str[k] # "%") => foundVars = <<>>
        /\ str = <<"%","a","%","%","b","%">> => foundVars = << <<"a">>, <<"b">> >>

\* C25, its case: a call on '%a%%b%' has returned a and b
C25_Witness ==
    /\ findVarsPc = "returned"
    /\ str = <<"%","a","%","%","b","%">>
    /\ foundVars = << <<"a">>, <<"b">> >>

\* the orders the local paths of state.toPush can be in
Orders(q) ==
    { [i \in 1..Len(q) |-> q[p[i]]] :
        p \in { f \in [1..Len(q) -> 1..Len(q)] :
                  \A i, j \in 1..Len(q) : f[i] = f[j] => i = j } }

\* what expandVariables gives for the local paths in the order q, after
\* determineVariableWork and hooks that have given the results in
\* state.funcValues
ExpandedInOrder(q) ==
    LET d == VariableWork(EmptyObject, repoPaths)
        values == [k \in (DOMAIN d.varValues) \cup (DOMAIN funcValues) |->
                     IF k \in DOMAIN funcValues THEN funcValues[k]
                     ELSE d.varValues[k]]
    IN  ExpandLoop([varValues |-> values, paths |-> d.paths,
                    scpCommands |-> <<>>, errors |-> <<>>], q, 1)

\* the source, destination and recursive flag of the commands of q
Transfers(q) ==
    { [source |-> q[k].source, destination |-> q[k].destination,
       recursive |-> q[k].recursive] : k \in 1..Len(q) }

\* C26: when a run has ended without an error, it has built one command for
\* each input path, and for every other order of the local paths (the order
\* in which the stat calls complete) expandVariables succeeds too, with the
\* same set of commands.
C26_CommandsIndependentOfOrder ==
    (pc = "done" /\ failedStage = "none") =>
        /\ Len(scpCommands) = Cardinality(toPushRaw)
        /\ Transfers(ExpandedInOrder(toPush).scpCommands)
             = Transfers(scpCommands)
        /\ \A q \in Orders(toPush) :
               /\ ExpandedInOrder(q).errors = <<>>
               /\ Transfers(ExpandedInOrder(q).scpCommands)
                    = Transfers(scpCommands)

\* C27: a local path whose rule has a reference cycle in its closure (a
\* variable that refers to itself, directly or through other variables) never
\* gets a command, and its run executes and prints no command and ends with
\* an error.
C27_CycleNeverTransfers ==
    MatchingRan =>
        \A lp \in 1..Len(toPush) :
            LET rp == toPush[lp].matchingPath
            IN  (rp # 0 /\ \E name \in Closure(rp) : Cyclic(name)) =>
                    /\ scpExecuted = <<>> /\ printed = <<>>
                    /\ pc = "done" => failedStage # "none"
                    /\ \A k \in 1..Len(scpCommands) :
                           scpCommands[k].source
                               # Top \o <<"/">> \o toPush[lp].path

\* name is a plain variable without a definition or a reference to a hook
\* that is not in the hook table
Unknown(name) ==
    IF IsHook(name) THEN HookOf(name) \notin HookNames
    ELSE name \notin DOMAIN RepoVariables

\* C28: once determineVariableWork has run, an unknown variable or unknown
\* hook in the closure of any rule, matched by an input path or not, has
\* made it fail, so that no hook is called and no command executed in the
\* run; and every hook called is one of a rule that some local path has.
C28_UnknownNameFailsWholeRun ==
    /\ (VariableWorkRan /\ \E rp \in 1..Len(repoPaths) :
                               \E name \in Closure(rp) : Unknown(name)) =>
           /\ pc = "done" /\ failedStage = "determineVariableWork"
           /\ hookCalls = <<>> /\ scpExecuted = <<>> /\ printed = <<>>
    /\ \A k \in 1..Len(hookCalls) :
           \E lp \in 1..Len(toPush) :
               /\ toPush[lp].matchingPath # 0
               /\ \E f \in 1..Len(remotePaths[toPush[lp].matchingPath].funcs) :
                      LET t == remotePaths[toPush[lp].matchingPath].funcs[f]
                      IN  hookCalls[k] = [func |-> t.func, args |-> t.args]

\* C29: with every external command completing, once callFunctions has
\* started the hooks every one of them calls back, so that callFunctions
\* calls back too and the run goes on to its final callback.
C29_DispatchedHooksCallBack ==
    (pc = "hooks") ~> (hookPending = {} /\ pc # "hooks")

====
